---- MODULE Spec2Model ----
(***************************************************************************)
(* mikasa: the disk-backed cache decorator save_cache (mikasa/io.py) over  *)
(* a small POSIX file system, and the parameter dictionaries of XGBTrainer *)
(* (mikasa/trainer/gbdt.py).                                               *)
(*                                                                         *)
(* Path strings and file contents are sequences of one-character strings.  *)
(* A pickle is modelled as the opcode "P", the payload bytes of the        *)
(* artifact, and the STOP opcode "."; "0" is a NUL byte of a file hole.    *)
(***************************************************************************)
EXTENDS Integers, Sequences, FiniteSets, TLC

\* Longest artifact payload, and the number of calls of one behaviour.
MaxLen == 1
MaxCalls == 3

Items == {"x", "y"}

RECURSIVE SeqsUpTo(_)
SeqsUpTo(n) ==
    IF n = 0 THEN {<<>>}
    ELSE LET S == SeqsUpTo(n - 1)
         IN  S \cup {Append(s, i) : s \in {t \in S : Len(t) = n - 1}, i \in Items}

\* The values a producer returns and the cache stores.
Artifacts == SeqsUpTo(MaxLen)

\* The wrapped functions: ident returns its argument, boom raises.
Funcs == {"ident", "boom"}

\* filepath arguments of save_cache: a bare file name, a file in a
\* directory, a file two directories deep.
Locations ==
    { <<"a">>,
      <<"d", "/", "a">>,
      <<"d", "/", "e", "/", "a">> }

Procs == {1, 2}

VARIABLES
    dirs,      \* the directories that exist (cwd and "/" always do)
    files,     \* path of each regular file |-> its bytes
    pc,        \* where each caller is in run_func
    call,      \* filepath, use_cache of the decorator; func, args of the call
    ret,       \* what the call returned or raised
    result,    \* the local variable result of run_func
    invoked,   \* how often this call has invoked func
    offset,    \* bytes this caller has written through its open file
    pre,       \* the file system when the call began
    stored,    \* path |-> the call whose completed dump the file holds
    writers,   \* path |-> the callers that wrote since the last truncation,
               \* and the caller of the latest write (0: nobody yet)
    ncalls,    \* calls begun
    heap,      \* the dict objects: identity |-> contents
    trainers   \* the XGBTrainer instances constructed so far

cacheVars == <<dirs, files, pc, call, ret, result, invoked, offset, pre,
               stored, writers, ncalls>>
xgbVars == <<heap, trainers>>
vars == <<cacheVars, xgbVars>>

----------------------------------------------------------------------------
(* Paths and the file system *)

NoFiles == [f \in {} |-> <<>>]

Put(fn, k, v) == [x \in (DOMAIN fn) \cup {k} |-> IF x = k THEN v ELSE fn[x]]
Drop(fn, k) == [x \in (DOMAIN fn) \ {k} |-> fn[x]]

\* str.rfind("/"): the index of the last "/", 0 when there is none.
rfind(s) ==
    IF \E i \in 1..Len(s) : s[i] = "/"
    THEN CHOOSE i \in 1..Len(s) :
             s[i] = "/" /\ \A j \in (i + 1)..Len(s) : s[j] # "/"
    ELSE 0

\* str.find("/"): the index of the first "/", 0 when there is none.
find(s) ==
    IF \E i \in 1..Len(s) : s[i] = "/"
    THEN CHOOSE i \in 1..Len(s) :
             s[i] = "/" /\ \A j \in 1..(i - 1) : s[j] # "/"
    ELSE 0

\* Variant: filepath.split("/", 1)[0], the first component of the path.
dst_dir_first(filepath) ==
    IF find(filepath) = 0 THEN filepath
    ELSE SubSeq(filepath, 1, find(filepath) - 1)

\* filepath.rsplit("/", 1)[0]
dst_dir(filepath) ==
    IF rfind(filepath) = 0 THEN filepath
    ELSE SubSeq(filepath, 1, rfind(filepath) - 1)

RECURSIVE rstrip(_)
rstrip(s) ==
    IF s # <<>> /\ s[Len(s)] = "/" THEN rstrip(SubSeq(s, 1, Len(s) - 1)) ELSE s

\* posixpath.split
path_split(p) ==
    LET i == rfind(p)
        h == SubSeq(p, 1, i)
    IN  [head |-> IF rstrip(h) = <<>> THEN h ELSE rstrip(h),
         tail |-> SubSeq(p, i + 1, Len(p))]

IsDir(ds, p) == p = <<"/">> \/ p \in ds
IsFile(fs, p) == p \in DOMAIN fs

\* os.path.exists
exists(ds, fs, p) == p # <<>> /\ (IsDir(ds, p) \/ IsFile(fs, p))

\* The directory a path's last component lives in: "" is the cwd.
Container(p) == path_split(p).head

\* What stops a name being created in its container, "none" if nothing.
ContainerError(ds, fs, p) ==
    IF Container(p) = <<>> \/ IsDir(ds, Container(p)) THEN "none"
    ELSE IF IsFile(fs, Container(p)) THEN "NotADirectoryError"
    ELSE "FileNotFoundError"

\* os.mkdir
mkdir(ds, fs, name) ==
    IF name = <<>> THEN [dirs |-> ds, err |-> "FileNotFoundError"]
    ELSE IF exists(ds, fs, name) THEN [dirs |-> ds, err |-> "FileExistsError"]
    ELSE IF ContainerError(ds, fs, name) # "none"
         THEN [dirs |-> ds, err |-> ContainerError(ds, fs, name)]
    ELSE [dirs |-> ds \cup {name}, err |-> "none"]

\* os.makedirs(name), exist_ok=False: the missing ancestors first (a
\* FileExistsError among them is ignored), then the leaf.
RECURSIVE makedirs(_, _, _)
makedirs(ds, fs, name) ==
    LET s1 == path_split(name)
        s2 == IF s1.tail = <<>> THEN path_split(s1.head) ELSE s1
        up == IF s2.head # <<>> /\ s2.tail # <<>> /\ ~exists(ds, fs, s2.head)
              THEN makedirs(ds, fs, s2.head)
              ELSE [dirs |-> ds, err |-> "none"]
    IN  IF up.err \notin {"none", "FileExistsError"} THEN up
        ELSE mkdir(up.dirs, fs, name)

\* What open(filepath, mode) raises, "none" if it opens. Mode "wb" creates a
\* missing file, mode "rb" needs it to exist.
open_error(ds, fs, filepath, mode) ==
    IF filepath = <<>> THEN "FileNotFoundError"
    ELSE IF IsDir(ds, filepath) THEN "IsADirectoryError"
    ELSE IF ContainerError(ds, fs, filepath) # "none"
         THEN ContainerError(ds, fs, filepath)
    ELSE IF mode = "rb" /\ ~IsFile(fs, filepath) THEN "FileNotFoundError"
    ELSE "none"

----------------------------------------------------------------------------
(* pickle *)

\* pickle.dumps: the bytes pickle.dump writes for an artifact.
pickle_dumps(data) == <<"P">> \o data \o <<".">>

\* The index of the first STOP opcode, 0 when there is none.
FirstStop(bytes) ==
    IF \E i \in 1..Len(bytes) : bytes[i] = "."
    THEN CHOOSE i \in 1..Len(bytes) :
             bytes[i] = "." /\ \A j \in 1..(i - 1) : bytes[j] # "."
    ELSE 0

\* pickle.load of a file's bytes: it reads up to the first STOP and ignores
\* what follows; it fails on an empty or truncated file and on a byte that
\* is no opcode of the pickle.
pickle_load(bytes) ==
    LET n == FirstStop(bytes)
    IN  IF n >= 2 /\ bytes[1] = "P" /\ \A i \in 2..(n - 1) : bytes[i] \in Items
        THEN [ok |-> TRUE, value |-> SubSeq(bytes, 2, n - 1)]
        ELSE [ok |-> FALSE, value |-> <<>>]

\* Variant: the file is opened for appending, every write goes to its end.
write_append(bytes, pos, b) == Append(bytes, b)

\* file.write(b) of one byte at position pos of a file (1-based); the gap
\* a write past the end leaves is filled with NUL bytes.
write_at(bytes, pos, b) ==
    [i \in 1..(IF pos > Len(bytes) THEN pos ELSE Len(bytes)) |->
        IF i = pos THEN b
        ELSE IF i <= Len(bytes) THEN bytes[i]
        ELSE "0"]

----------------------------------------------------------------------------
(* The wrapped function *)

\* func(*args, **kwargs): the value returned, or raises.
Produce(fn, args) ==
    IF fn = "ident" THEN [raises |-> FALSE, value |-> args]
    ELSE [raises |-> TRUE, value |-> <<>>]

\* The dict objects the def statement of XGBTrainer.__init__ creates once,
\* as the default values of params and of train_params.
DefaultParams == 0
DefaultTrainParams == 1

\* An empty dict.
EmptyDict == [k \in {} |-> ""]

NoCall == [filepath |-> <<>>, use_cache |-> FALSE, func |-> "none", args |-> <<>>]
NoRet == [kind |-> "none", value |-> <<>>]
NoPre == [dirs |-> {}, files |-> NoFiles, stored |-> NoFiles]

Init ==
    /\ dirs = {}
    /\ files = NoFiles
    /\ pc = [p \in Procs |-> "idle"]
    /\ call = [p \in Procs |-> NoCall]
    /\ ret = [p \in Procs |-> NoRet]
    /\ result = [p \in Procs |-> <<>>]
    /\ invoked = [p \in Procs |-> 0]
    /\ offset = [p \in Procs |-> 0]
    /\ pre = [p \in Procs |-> NoPre]
    /\ stored = NoFiles
    /\ writers = NoFiles
    /\ ncalls = 0
    /\ heap = [d \in {DefaultParams, DefaultTrainParams} |-> EmptyDict]
    /\ trainers = <<>>

\* The call raises or returns: run_func is over.
Finish(p, kind, value) ==
    /\ pc' = [pc EXCEPT ![p] = "done"]
    /\ ret' = [ret EXCEPT ![p] = [kind |-> kind, value |-> value]]

\* run_func(*args, **kwargs) is entered.
Enter(p, fp, uc, fn, ar) ==
    /\ pc[p] = "idle"
    /\ ncalls < MaxCalls
    /\ ncalls' = ncalls + 1
    /\ pc' = [pc EXCEPT ![p] = "line46"]
    /\ call' = [call EXCEPT ![p] =
                    [filepath |-> fp, use_cache |-> uc, func |-> fn, args |-> ar]]
    /\ pre' = [pre EXCEPT ![p] =
                    [dirs |-> dirs, files |-> files, stored |-> stored]]
    /\ invoked' = [invoked EXCEPT ![p] = 0]
    /\ UNCHANGED <<dirs, files, ret, result, offset, stored, writers,
                   xgbVars>>

\* A call made while no other call is in progress.
Call(p, fp, uc, fn, ar) ==
    /\ \A q \in Procs : pc[q] = "idle"
    /\ Enter(p, fp, uc, fn, ar)

\* if not os.path.exists(dst_dir):
ExistsDir(p) ==
    /\ pc[p] = "line46"
    /\ pc' = [pc EXCEPT ![p] =
                IF ~exists(dirs, files, dst_dir(call[p].filepath))
                THEN "line47" ELSE "line49"]
    /\ UNCHANGED <<dirs, files, call, ret, result, invoked, offset, pre,
                   stored, writers, ncalls,
                   xgbVars>>

\* os.makedirs(dst_dir)
MakeDirs(p) ==
    /\ pc[p] = "line47"
    /\ LET r == makedirs(dirs, files, dst_dir(call[p].filepath))
       IN  /\ dirs' = r.dirs
           /\ IF r.err = "none"
              THEN pc' = [pc EXCEPT ![p] = "line49"] /\ UNCHANGED ret
              ELSE Finish(p, r.err, <<>>)
    /\ UNCHANGED <<files, call, result, invoked, offset, pre, stored, writers,
                   ncalls,
                   xgbVars>>

\* Variant: the flag is read inverted.
CacheHitInverted(p) ==
    ~call[p].use_cache /\ exists(dirs, files, call[p].filepath)

\* Variant: an entry is reused only if this func and these args stored it.
CacheHitKeyed(p) ==
    /\ call[p].use_cache
    /\ exists(dirs, files, call[p].filepath)
    /\ call[p].filepath \in DOMAIN stored
    /\ stored[call[p].filepath].func = call[p].func
    /\ stored[call[p].filepath].args = call[p].args

\* use_cache and os.path.exists(filepath)
CacheHit(p) == call[p].use_cache /\ exists(dirs, files, call[p].filepath)

\* if use_cache and os.path.exists(filepath):
CheckCache(p) ==
    /\ pc[p] = "line49"
    /\ pc' = [pc EXCEPT ![p] = IF CacheHit(p) THEN "line50" ELSE "line52"]
    /\ UNCHANGED <<dirs, files, call, ret, result, invoked, offset, pre,
                   stored, writers, ncalls,
                   xgbVars>>

\* Variant: an entry that does not load is recomputed.
LoadPickleFallback(p) ==
    /\ pc[p] = "line50"
    /\ LET fp == call[p].filepath
           e == open_error(dirs, files, fp, "rb")
       IN  IF e # "none" THEN Finish(p, e, <<>>)
           ELSE IF pickle_load(files[fp]).ok
                THEN Finish(p, "ok", pickle_load(files[fp]).value)
           ELSE pc' = [pc EXCEPT ![p] = "line52"] /\ UNCHANGED ret
    /\ UNCHANGED <<dirs, files, call, result, invoked, offset, pre, stored,
                   writers, ncalls,
                   xgbVars>>

\* return load_pickle(filepath)
LoadPickle(p) ==
    /\ pc[p] = "line50"
    /\ LET fp == call[p].filepath
           e == open_error(dirs, files, fp, "rb")
       IN  IF e # "none" THEN Finish(p, e, <<>>)
           ELSE IF pickle_load(files[fp]).ok
                THEN Finish(p, "ok", pickle_load(files[fp]).value)
           ELSE Finish(p, "DeserializationError", <<>>)
    /\ UNCHANGED <<dirs, files, call, result, invoked, offset, pre, stored,
                   writers, ncalls,
                   xgbVars>>

\* Variant: the file is opened for writing before func is invoked.
InvokeFuncOpenFirst(p) ==
    /\ pc[p] = "line52"
    /\ invoked' = [invoked EXCEPT ![p] = @ + 1]
    /\ files' = IF open_error(dirs, files, call[p].filepath, "wb") = "none"
                THEN Put(files, call[p].filepath, <<>>)
                ELSE files
    /\ LET r == Produce(call[p].func, call[p].args)
       IN  IF r.raises
           THEN Finish(p, "ProducerError", <<>>) /\ UNCHANGED result
           ELSE /\ result' = [result EXCEPT ![p] = r.value]
                /\ pc' = [pc EXCEPT ![p] = "line53"]
                /\ UNCHANGED ret
    /\ UNCHANGED <<dirs, call, offset, pre, stored, writers, ncalls,
                   xgbVars>>

\* result = func(*args, **kwargs)
InvokeFunc(p) ==
    /\ pc[p] = "line52"
    /\ invoked' = [invoked EXCEPT ![p] = @ + 1]
    /\ LET r == Produce(call[p].func, call[p].args)
       IN  IF r.raises
           THEN Finish(p, "ProducerError", <<>>) /\ UNCHANGED result
           ELSE /\ result' = [result EXCEPT ![p] = r.value]
                /\ pc' = [pc EXCEPT ![p] = "line53"]
                /\ UNCHANGED ret
    /\ UNCHANGED <<dirs, files, call, offset, pre, stored, writers, ncalls,
                   xgbVars>>

\* Variant: the file is opened without truncating it.
OpenedBytesKept(old) == old

\* The bytes of a file just opened with mode "wb".
OpenedBytes(old) == <<>>

\* dump_pickle: with open(filepath, "wb") as file:
DumpOpen(p) ==
    /\ pc[p] = "line53"
    /\ LET fp == call[p].filepath
           e == open_error(dirs, files, fp, "wb")
       IN  IF e # "none"
           THEN /\ Finish(p, e, <<>>)
                /\ UNCHANGED <<files, offset, stored, writers>>
           ELSE /\ files' = Put(files, fp,
                                OpenedBytes(IF IsFile(files, fp) THEN files[fp]
                                            ELSE <<>>))
                /\ offset' = [offset EXCEPT ![p] = 0]
                /\ stored' = Drop(stored, fp)
                /\ writers' = Put(writers, fp, [since |-> {}, last |-> 0])
                /\ pc' = [pc EXCEPT ![p] = "line20"]
                /\ UNCHANGED ret
    /\ UNCHANGED <<dirs, call, result, invoked, pre, ncalls,
                   xgbVars>>

\* dump_pickle: pickle.dump(data, file), one byte of it; after the last
\* byte the file is closed and run_func returns result.
DumpWrite(p) ==
    /\ pc[p] = "line20"
    /\ LET fp == call[p].filepath
           data == pickle_dumps(result[p])
           pos == offset[p] + 1
       IN  /\ files' = [files EXCEPT ![fp] = write_at(@, pos, data[pos])]
           /\ offset' = [offset EXCEPT ![p] = pos]
           /\ writers' = [writers EXCEPT ![fp] =
                              [since |-> @.since \cup {p}, last |-> p]]
           /\ IF pos = Len(data)
              THEN /\ Finish(p, "ok", result[p])
                   /\ stored' = Put(stored, fp,
                                    [func |-> call[p].func, args |-> call[p].args,
                                     value |-> result[p]])
              ELSE UNCHANGED <<pc, ret, stored>>
    /\ UNCHANGED <<dirs, call, result, invoked, pre, ncalls,
                   xgbVars>>

\* dump_pickle: the write fails partway (the disk is full, the result
\* cannot be pickled); the file keeps what was written so far.
DumpFail(p) ==
    /\ pc[p] = "line20"
    /\ Finish(p, "OSError", <<>>)
    /\ UNCHANGED <<dirs, files, call, result, invoked, offset, pre, stored,
                   writers, ncalls,
                   xgbVars>>

\* The caller has the value or the exception and is ready to call again.
Return(p) ==
    /\ pc[p] = "done"
    /\ pc' = [pc EXCEPT ![p] = "idle"]
    /\ call' = [call EXCEPT ![p] = NoCall]
    /\ ret' = [ret EXCEPT ![p] = NoRet]
    /\ result' = [result EXCEPT ![p] = <<>>]
    /\ invoked' = [invoked EXCEPT ![p] = 0]
    /\ offset' = [offset EXCEPT ![p] = 0]
    /\ pre' = [pre EXCEPT ![p] = NoPre]
    /\ UNCHANGED <<dirs, files, stored, writers, ncalls,
                   xgbVars>>

\* Calls made one at a time, as the single-threaded program makes them.
Next ==
    \/ \E fp \in Locations, uc \in BOOLEAN, fn \in Funcs, ar \in Artifacts :
           Call(1, fp, uc, fn, ar)
    \/ ExistsDir(1)
    \/ MakeDirs(1)
    \/ CheckCache(1)
    \/ LoadPickle(1)
    \/ InvokeFunc(1)
    \/ DumpOpen(1)
    \/ DumpWrite(1)
    \/ DumpFail(1)
    \/ Return(1)

Spec == Init /\ [][Next]_vars

\* Two independent callers, one call each with use_cache=False, running
\* run_func concurrently.
ConcCall(p, fp, fn, ar) ==
    /\ ret[p].kind = "none"
    /\ Enter(p, fp, FALSE, fn, ar)

NextConc ==
    \E p \in Procs :
        \/ \E fp \in Locations, fn \in Funcs, ar \in Artifacts :
               ConcCall(p, fp, fn, ar)
        \/ ExistsDir(p)
        \/ MakeDirs(p)
        \/ CheckCache(p)
        \/ InvokeFunc(p)
        \/ DumpOpen(p)
        \/ DumpWrite(p)
        \/ DumpFail(p)

SpecConc == Init /\ [][NextConc]_vars

----------------------------------------------------------------------------
(* XGBTrainer *)

\* Instances constructed in one behaviour.
MaxTrainers == 3

\* random_state arguments of fit; None is its default.
Seeds == {"None", "0", "1"}

\* params dicts a caller passes to the constructor.
GivenParams == {EmptyDict, [k \in {"eta"} |-> "0.3"]}

\* The identity of a dict object that does not exist yet.
FreshDict == Cardinality(DOMAIN heap)

\* XGBTrainer(): self.params and self.train_params are the default objects.
XGBTrainer_init_default ==
    /\ Len(trainers) < MaxTrainers
    /\ trainers' = Append(trainers,
                          [params |-> DefaultParams,
                           train_params |-> DefaultTrainParams,
                           model |-> "None", defaulted |-> TRUE])
    /\ UNCHANGED <<heap, cacheVars>>

\* XGBTrainer(params=d) with a dict d the caller has just built.
XGBTrainer_init(d) ==
    /\ Len(trainers) < MaxTrainers
    /\ heap' = Put(heap, FreshDict, d)
    /\ trainers' = Append(trainers,
                          [params |-> FreshDict,
                           train_params |-> DefaultTrainParams,
                           model |-> "None", defaulted |-> FALSE])
    /\ UNCHANGED cacheVars

\* fit(..., random_state=s): self.params["seed"] = random_state, then
\* self.model = xgb.train(self.params, ...).
fit(t, s) ==
    /\ t \in 1..Len(trainers)
    /\ heap' = [heap EXCEPT ![trainers[t].params] = Put(@, "seed", s)]
    /\ trainers' = [trainers EXCEPT ![t].model = "Booster"]
    /\ UNCHANGED cacheVars

NextXGB ==
    \/ XGBTrainer_init_default
    \/ \E d \in GivenParams : XGBTrainer_init(d)
    \/ \E t \in 1..MaxTrainers, s \in Seeds : fit(t, s)

SpecXGB == Init /\ [][NextXGB]_vars

----------------------------------------------------------------------------
(* Properties *)

Done(p) == pc[p] = "done"
Loc(p) == call[p].filepath
Produced(p) == Produce(call[p].func, call[p].args)

\* The cache entry at a location: <<bytes>> of the file there, <<>> if none.
Entry(fs, fp) == IF IsFile(fs, fp) THEN <<fs[fp]>> ELSE <<>>

IsPrefix(s, t) == Len(s) <= Len(t) /\ SubSeq(t, 1, Len(s)) = s

\* The directories os.makedirs(d) has to make exist: d and those above it.
RECURSIVE Ancestors(_)
Ancestors(d) ==
    IF d = <<>> \/ d = <<"/">> THEN {} ELSE {d} \cup Ancestors(Container(d))

\* The call began with a complete entry at its location, stored by a call
\* that returned.
Populated(p) == Loc(p) \in DOMAIN pre[p].stored

\* The call began with a file at its location that does not load.
Corrupt(p) ==
    IsFile(pre[p].files, Loc(p)) /\ ~pickle_load(pre[p].files[Loc(p)]).ok

\* C1: with use_cache=True, a call that begins when an earlier call has
\* populated the location does not invoke func, returns the value that
\* earlier call returned, and leaves the entry as it was.
C1_ReuseReturnsStored ==
    \A p \in Procs :
        (Done(p) /\ call[p].use_cache /\ Populated(p)) =>
            /\ invoked[p] = 0
            /\ ret[p] = [kind |-> "ok", value |-> pre[p].stored[Loc(p)].value]
            /\ Entry(files, Loc(p)) = Entry(pre[p].files, Loc(p))

C1_Witness ==
    \E p \in Procs :
        /\ Done(p) /\ call[p].use_cache /\ Populated(p)
        /\ ret[p].kind = "ok" /\ invoked[p] = 0

\* C2: with use_cache=False, every call whose func returns (and whose write
\* the disk does not fail) invokes func exactly once, returns its result,
\* and leaves that result as the complete entry at the location.
C2_NoReuseComputesAndStores ==
    \A p \in Procs :
        (Done(p) /\ ~call[p].use_cache /\ ~Produced(p).raises
                 /\ ret[p].kind # "OSError") =>
            /\ invoked[p] = 1
            /\ ret[p] = [kind |-> "ok", value |-> Produced(p).value]
            /\ Entry(files, Loc(p)) = <<pickle_dumps(ret[p].value)>>

\* The call began with no directory where the parent of its location is.
ParentMissing(p) ==
    /\ Container(Loc(p)) # <<>>
    /\ ~exists(pre[p].dirs, pre[p].files, Container(Loc(p)))

\* C3: a call on a location whose parent directory does not exist creates
\* that directory with the missing ones above it and no other directory,
\* fails only if func raises or the disk fails the write, and if it
\* returns, a file with the complete entry is at the location.
C3_ParentDirectoryCreated ==
    \A p \in Procs :
        (Done(p) /\ ParentMissing(p)) =>
            /\ dirs = pre[p].dirs \cup Ancestors(Container(Loc(p)))
            /\ ret[p].kind \in
                  {"ok", "OSError"} \cup
                  (IF Produced(p).raises /\ invoked[p] = 1
                   THEN {"ProducerError"} ELSE {})
            /\ ret[p].kind = "ok" =>
                  /\ IsFile(files, Loc(p))
                  /\ files[Loc(p)] = pickle_dumps(ret[p].value)

C3_Witness ==
    \E p \in Procs :
        /\ Done(p) /\ ParentMissing(p) /\ ret[p].kind = "ok"
        /\ Cardinality(dirs \ pre[p].dirs) = 2
        /\ IsFile(files, Loc(p))

\* C4 as claimed: whenever no write is in progress, every file at a
\* location is the complete serialization of one artifact.
C4_NeverPartial ==
    (\A p \in Procs : pc[p] \in {"idle", "done"}) =>
        \A f \in DOMAIN files : \E v \in Artifacts : files[f] = pickle_dumps(v)

\* C4 as amended: with calls made one at a time, every file at a location
\* is a prefix of the serialization of one artifact, never a mix of two;
\* it is the complete serialization after a call that returns, and it is
\* what the last call that returned stored until the next write begins.
C4_PrefixOfOneArtifact ==
    /\ \A f \in DOMAIN files :
           \E v \in Artifacts : IsPrefix(files[f], pickle_dumps(v))
    /\ \A f \in DOMAIN stored :
           IsFile(files, f) /\ files[f] = pickle_dumps(stored[f].value)
    /\ \A p \in Procs :
           (Done(p) /\ ret[p].kind = "ok" /\ invoked[p] = 1) =>
               Entry(files, Loc(p)) = <<pickle_dumps(ret[p].value)>>

C4_Witness ==
    \E p \in Procs :
        /\ Done(p) /\ ret[p].kind = "OSError"
        /\ IsFile(pre[p].files, Loc(p))
        /\ pickle_load(pre[p].files[Loc(p)]).ok
        /\ files[Loc(p)] # <<>>
        /\ ~pickle_load(files[Loc(p)]).ok

\* C5: when func raises, the call fails with that exception after the one
\* invocation, and the entry at the location is what it was before the call.
C5_ProducerErrorPropagates ==
    \A p \in Procs :
        (Done(p) /\ invoked[p] >= 1 /\ Produced(p).raises) =>
            /\ ret[p].kind = "ProducerError"
            /\ invoked[p] = 1
            /\ Entry(files, Loc(p)) = Entry(pre[p].files, Loc(p))

C5_Witness ==
    \E p \in Procs :
        /\ Done(p) /\ ret[p].kind = "ProducerError"
        /\ IsFile(files, Loc(p))

\* C6: with use_cache=True and a file at the location that does not load,
\* the call fails with a deserialization error, func is not invoked and
\* the file stays as it is (so the next such call fails the same way); a
\* call with use_cache=False that returns has rewritten it.
C6_CorruptEntryFails ==
    \A p \in Procs :
        (Done(p) /\ Corrupt(p)) =>
            /\ call[p].use_cache =>
                  /\ ret[p].kind = "DeserializationError"
                  /\ invoked[p] = 0
                  /\ Entry(files, Loc(p)) = Entry(pre[p].files, Loc(p))
            /\ (~call[p].use_cache /\ ret[p].kind = "ok") =>
                  /\ invoked[p] = 1
                  /\ files[Loc(p)] = pickle_dumps(ret[p].value)
                  /\ pickle_load(files[Loc(p)]) =
                         [ok |-> TRUE, value |-> ret[p].value]

C6_Witness ==
    \E p \in Procs :
        /\ Done(p) /\ Corrupt(p) /\ call[p].use_cache
        /\ ret[p].kind = "DeserializationError"

\* The caller whose step this is.
Acts(p) == pc'[p] # pc[p] \/ offset'[p] # offset[p]

\* C7: a step creates a file at a location only in a call that has
\* computed its result; it changes the bytes of an existing file only in a
\* call made with use_cache=False or in the call that created the file;
\* and no step removes a file.
C7_EntryLifecycle ==
    [][ /\ DOMAIN files \subseteq DOMAIN files'
        /\ \A f \in DOMAIN files' :
              Entry(files', f) # Entry(files, f) =>
                 \E p \in Procs :
                    /\ Acts(p)
                    /\ Loc(p) = f
                    /\ invoked[p] = 1 /\ ~Produced(p).raises
                    /\ ~call[p].use_cache \/ ~IsFile(pre[p].files, f) ]_vars

C7_Witness ==
    \E p \in Procs :
        /\ Done(p) /\ ~call[p].use_cache /\ ret[p].kind = "ok"
        /\ IsFile(pre[p].files, Loc(p))
        /\ files[Loc(p)] # pre[p].files[Loc(p)]

\* The entry the call began with was stored by another func or for other
\* args.
StoredForOther(p) ==
    /\ Populated(p)
    /\ <<pre[p].stored[Loc(p)].func, pre[p].stored[Loc(p)].args>> #
           <<call[p].func, call[p].args>>

\* C8: with use_cache=True, an entry stored by another func or for other
\* args is returned as the result, without invoking func and without error.
C8_ReuseIgnoresArguments ==
    \A p \in Procs :
        (Done(p) /\ call[p].use_cache /\ StoredForOther(p)) =>
            /\ ret[p].kind = "ok"
            /\ ret[p].value = pickle_load(pre[p].files[Loc(p)]).value
            /\ invoked[p] = 0

C8_Witness ==
    \E p \in Procs :
        /\ Done(p) /\ call[p].use_cache /\ StoredForOther(p)
        /\ ret[p].kind = "ok"
        /\ ~Produced(p).raises
        /\ ret[p].value # Produced(p).value

\* Both callers have returned from calls on the same location.
BothReturned(p, q) ==
    /\ p # q /\ Done(p) /\ Done(q)
    /\ ret[p].kind = "ok" /\ ret[q].kind = "ok"
    /\ Loc(p) = Loc(q)

\* C9 as claimed: when two concurrent callers with use_cache=False have
\* both returned, the entry is the complete result of the caller that
\* wrote last.
C9_LastWriterWins ==
    \A p, q \in Procs :
        BothReturned(p, q) =>
            /\ writers[Loc(p)].last \in {p, q}
            /\ files[Loc(p)] = pickle_dumps(ret[writers[Loc(p)].last].value)

\* C9 as amended: a caller that returns returns its own func's result;
\* when both have returned, every byte of the entry is the byte one of the
\* two serializations has at that position, or the NUL of a gap; the entry
\* is the complete result of one caller if only that caller has written
\* since the file was last truncated.
C9_BytewiseLastWriter ==
    /\ \A p \in Procs :
           (Done(p) /\ ret[p].kind = "ok") =>
               invoked[p] = 1 /\ ret[p].value = Produced(p).value
    /\ \A p, q \in Procs :
           BothReturned(p, q) =>
               LET f == files[Loc(p)]
                   a == pickle_dumps(ret[p].value)
                   b == pickle_dumps(ret[q].value)
               IN  /\ \A i \in 1..Len(f) :
                          \/ i <= Len(a) /\ f[i] = a[i]
                          \/ i <= Len(b) /\ f[i] = b[i]
                          \/ f[i] = "0"
                   /\ writers[Loc(p)].since = {p} => f = a

C9_Witness ==
    \E p, q \in Procs :
        /\ BothReturned(p, q)
        /\ writers[Loc(p)].last = q
        /\ files[Loc(p)] # pickle_dumps(ret[q].value)
        /\ files[Loc(p)] # pickle_dumps(ret[p].value)

\* C10: when two trainers were both constructed without params, a fit of
\* one leaves the params of the other as they were.
C10_IndependentParams ==
    [][ \A t, u \in 1..Len(trainers) :
           ( /\ t # u
             /\ trainers[t].defaulted /\ trainers[u].defaulted
             /\ \E s \in Seeds : fit(t, s) ) =>
               heap'[trainers'[u].params] = heap[trainers[u].params] ]_vars
====
